---- MODULE Spec2Model ----
(***************************************************************************)
(* A model of submillisecond's request-dispatch core:                      *)
(*   - src/src/lib.rs           Application::serve (acceptor and workers)  *)
(*   - src/src/extract/path.rs  Path<T>, ErrorKind, its Display and its    *)
(*                              conversion to a response                   *)
(*   - src/src/extract/vec.rs   the Vec<u8> body extractor                 *)
(*                                                                         *)
(* Text.  A Rust string is a sequence of pieces.  A piece is a TLA+ string *)
(* holding a fragment of a format string or one character; the text is the *)
(* concatenation of its pieces.  A printable ASCII character, a tab, a     *)
(* line feed and a carriage return are the piece that spells them; every   *)
(* other character is the piece "U+XXXX" naming its scalar value, as is    *)
(* the grave accent (U+0060, the piece BT), which cannot be written in a   *)
(* TLA+ string literal.                                                    *)
(***************************************************************************)
EXTENDS Integers, Sequences, FiniteSets, TLC

VARIABLES
    \* ---- error rendering (SpecErr)
    kind,       \* the ErrorKind held by a FailedToDeserializePathParams
    rendered,   \* the result of to_string() on it, NoText before the call
    eresp,      \* the result of into_response(), NoResponse before the call
    epc,        \* "rejection" | "responded"
    \* ---- the Path extractor (SpecPath)
    req,        \* the request's extensions: whether they hold a Params, and it
    target,     \* the shape of T in Path<T>
    xres,       \* what the last Path::from_request returned
    xpc,        \* "routing" | "extracted" | "extracted_again"
    \* ---- Application::serve (Spec)
    acceptor,       \* "binding" | "accepting" | "returned" | "killed"
    accept_calls,   \* the calls of listener.accept() made so far
    accept_failed,  \* whether a call of listener.accept() has failed
    serve_result,   \* "pending" | "Ok" | "Err": what serve returned
    workers,        \* the spawned processes, in spawn order
    \* ---- one call of merge_extensions (SpecMerge)
    mreq,       \* the request's extensions, as req
    marg,       \* the Params the caller passes as &mut params
    mcall,      \* the request and the params as they were when the call began
    mpc,        \* "call" | "merged"
    \* ---- the Vec<u8> extractor (SpecVec)
    vreq,       \* the request handed to the handler's extractors
    vreq0,      \* the request as it was before the first extraction
    vres,       \* what the calls of Vec::<u8>::from_request returned, in order
    vpc         \* "idle" | "handler"

varsErr == <<kind, rendered, eresp, epc>>
varsPath == <<req, target, xres, xpc>>
varsServe == <<acceptor, accept_calls, accept_failed, serve_result, workers>>
varsMerge == <<mreq, marg, mcall, mpc>>
varsVec == <<vreq, vreq0, vres, vpc>>
vars == <<kind, rendered, eresp, epc, req, target, xres, xpc,
          acceptor, accept_calls, accept_failed, serve_result, workers,
          mreq, marg, mcall, mpc, vreq, vreq0, vres, vpc>>

(***************************************************************************)
(* Bounds                                                                  *)
(***************************************************************************)
MaxValueLen == 2
MaxCount == 11
MaxUnits == 2
MaxConns == 2
MaxStore == 2
MaxBodyLen == 2

(***************************************************************************)
(* Text                                                                    *)
(***************************************************************************)
BT == "U+0060"
NUL == "U+0000"
ESC == "U+001B"
DEL == "U+007F"
EACUTE == "U+00E9"
COMBINING_ACUTE == "U+0301"
REPLACEMENT == "U+FFFD"

HexChar(d) ==
    CASE d = 0 -> "0" [] d = 1 -> "1" [] d = 2 -> "2" [] d = 3 -> "3"
      [] d = 4 -> "4" [] d = 5 -> "5" [] d = 6 -> "6" [] d = 7 -> "7"
      [] d = 8 -> "8" [] d = 9 -> "9" [] d = 10 -> "A" [] d = 11 -> "B"
      [] d = 12 -> "C" [] d = 13 -> "D" [] d = 14 -> "E" [] d = 15 -> "F"

RECURSIVE upper_hex(_)
upper_hex(n) ==
    IF n < 16 THEN HexChar(n) ELSE upper_hex(n \div 16) \o HexChar(n % 16)

\* the piece that names the character of scalar value cp: "U+" and at least
\* four hexadecimal digits
scalar_name(cp) ==
    "U+" \o (IF cp < 16 THEN "000" ELSE IF cp < 256 THEN "00"
             ELSE IF cp < 4096 THEN "0" ELSE "")
         \o upper_hex(cp)

\* char::len_utf8
len_utf8(cp) ==
    IF cp < 128 THEN 1 ELSE IF cp < 2048 THEN 2 ELSE IF cp < 65536 THEN 3 ELSE 4

\* the scalar values a piece of n characters can name
NamedBy(n) ==
    CASE n = 6 -> 0..65535
      [] n = 7 -> 65536..1048575
      [] n = 8 -> 1048576..1114111
      [] OTHER -> {}

\* to_string() not called yet
NoText == [done |-> FALSE, text |-> <<>>]
\* no response made yet
NoResponse == [status |-> 0, version |-> "none", headers |-> <<>>, body |-> <<>>]

\* str::len of one piece, in bytes: the UTF-8 length of the character a
\* piece names, else the length of what the piece spells (ASCII)
PieceLen(p) ==
    IF p = BT THEN 1
    ELSE LET named == {cp \in NamedBy(Len(p)) : scalar_name(cp) = p}
         IN  IF named = {} THEN Len(p)
             ELSE len_utf8(CHOOSE cp \in named : TRUE)

RECURSIVE ByteLen(_)
\* Vec<u8>::len of a body made from a text
ByteLen(t) == IF t = <<>> THEN 0 ELSE PieceLen(Head(t)) + ByteLen(Tail(t))

DigitChar(d) ==
    CASE d = 0 -> "0" [] d = 1 -> "1" [] d = 2 -> "2" [] d = 3 -> "3"
      [] d = 4 -> "4" [] d = 5 -> "5" [] d = 6 -> "6" [] d = 7 -> "7"
      [] d = 8 -> "8" [] d = 9 -> "9"

RECURSIVE fmt_usize(_)
\* <usize as Display>::fmt: the decimal digits, most significant first
fmt_usize(n) ==
    IF n < 10 THEN <<DigitChar(n)>>
    ELSE fmt_usize(n \div 10) \o <<DigitChar(n % 10)>>

LowerHexChar(d) ==
    CASE d < 10 -> HexChar(d)
      [] d = 10 -> "a" [] d = 11 -> "b" [] d = 12 -> "c"
      [] d = 13 -> "d" [] d = 14 -> "e" [] d = 15 -> "f"

RECURSIVE lower_hex(_)
lower_hex(n) ==
    IF n < 16 THEN <<LowerHexChar(n)>>
    ELSE lower_hex(n \div 16) \o <<LowerHexChar(n % 16)>>

\* char::escape_unicode: \u{..} with the scalar value in lower-case hex
escape_unicode(cp) == <<"\\", "u", "{">> \o lower_hex(cp) \o <<"}">>

\* the ASCII control characters that have no escape of their own
AsciiControls == ((1..31) \cup {127}) \ {9, 10, 13}

\* the characters the model knows to be printable: ASCII from the space to
\* the tilde, U+00E9 and U+FFFD
Printable ==
    {" ", "!", "#", "$", "%", "&", "'", "(", ")", "*", "+", ",", "-", ".", "/",
     "0", "1", "2", "3", "4", "5", "6", "7", "8", "9", ":", ";", "<", "=", ">",
     "?", "@", "A", "B", "C", "D", "E", "F", "G", "H", "I", "J", "K", "L", "M",
     "N", "O", "P", "Q", "R", "S", "T", "U", "V", "W", "X", "Y", "Z", "[", "]",
     "^", "_", BT, "a", "b", "c", "d", "e", "f", "g", "h", "i", "j", "k", "l",
     "m", "n", "o", "p", "q", "r", "s", "t", "u", "v", "w", "x", "y", "z", "{",
     "|", "}", "~", EACUTE, REPLACEMENT}

\* char::escape_debug as <str as Debug>::fmt applies it (double quotes
\* escaped, single quotes not, grapheme extenders escaped).  Defined for the
\* ASCII characters and for U+00E9, U+0301 and U+FFFD.
escape_debug(c) ==
    CASE c = "\"" -> <<"\\", "\"">>
      [] c = "\\" -> <<"\\", "\\">>
      [] c = "\n" -> <<"\\", "n">>
      [] c = "\t" -> <<"\\", "t">>
      [] c = "\r" -> <<"\\", "r">>
      [] c = NUL  -> <<"\\", "0">>
      [] c \in {scalar_name(cp) : cp \in AsciiControls} ->
            escape_unicode(CHOOSE cp \in AsciiControls : scalar_name(cp) = c)
      [] c = COMBINING_ACUTE -> escape_unicode(769)
      [] c \in Printable -> <<c>>

RECURSIVE escape_all(_)
escape_all(s) ==
    IF s = <<>> THEN <<>> ELSE escape_debug(Head(s)) \o escape_all(Tail(s))

\* <str as Debug>::fmt, the "{:?}" of a String: quoted and escaped
fmt_debug_str(s) == <<"\"">> \o escape_all(s) \o <<"\"">>

\* <str as Display>::fmt, the "{}" of a String: verbatim
fmt_display_str(s) == s

(***************************************************************************)
(* ErrorKind (path.rs 248-312)                                             *)
(***************************************************************************)
ValueChars == {"a", "\"", "\\", "\n", "\t", ESC}

RECURSIVE StringsUpTo(_, _)
StringsUpTo(chars, n) ==
    IF n = 0 THEN {<<>>}
    ELSE LET shorter == StringsUpTo(chars, n - 1)
         IN  shorter \cup {Append(s, c) : s \in shorter, c \in chars}

Values == StringsUpTo(ValueChars, MaxValueLen)
Keys == {<<"id">>, <<"user_id">>}
TypeNames == {"u32", "alloc::string::String"}
UnsupportedNames == {"map", "enum"}
Counts == 0..MaxCount

ErrorKind ==
    [tag : {"WrongNumberOfParameters"}, got : Counts, expected : Counts]
    \cup [tag : {"ParseErrorAtKey"}, key : Keys, value : Values, expected_type : TypeNames]
    \cup [tag : {"ParseErrorAtIndex"}, index : Counts, value : Values, expected_type : TypeNames]
    \cup [tag : {"ParseError"}, value : Values, expected_type : TypeNames]
    \cup [tag : {"InvalidUtf8InPathParam"}, key : Keys]
    \cup [tag : {"UnsupportedType"}, name : UnsupportedNames]
    \cup [tag : {"Message"}, msg : Values]

(***************************************************************************)
(* impl Display for ErrorKind (path.rs 314-360), one operator per arm      *)
(***************************************************************************)
fmt_Message(k) == fmt_display_str(k.msg)

fmt_InvalidUtf8InPathParam(k) ==
    <<"Invalid UTF-8 in ", BT>> \o fmt_display_str(k.key) \o <<BT>>

GuidanceSuffix ==
    <<". Note that multiple parameters must be extracted with a tuple ",
      BT, "Path<(_, _)>", BT, " or a struct ", BT, "Path<YourParams>", BT>>

\* a faulty variant: the guidance is added when got is 1
fmt_WrongNumberOfParameters_got(k) ==
    <<"Wrong number of path arguments for ", BT, "Path", BT, ". Expected ">>
        \o fmt_usize(k.expected) \o <<" but got ">> \o fmt_usize(k.got)
        \o (IF k.got = 1 THEN GuidanceSuffix ELSE <<>>)

fmt_WrongNumberOfParameters(k) ==
    <<"Wrong number of path arguments for ", BT, "Path", BT, ". Expected ">>
        \o fmt_usize(k.expected) \o <<" but got ">> \o fmt_usize(k.got)
        \o (IF k.expected = 1 THEN GuidanceSuffix ELSE <<>>)

fmt_UnsupportedType(k) == <<"Unsupported type ", BT, k.name, BT>>

fmt_ParseErrorAtKey(k) ==
    <<"Cannot parse ", BT>> \o fmt_display_str(k.key) \o <<BT, " with value ", BT>>
        \o fmt_debug_str(k.value) \o <<BT, " to a ", BT, k.expected_type, BT>>

\* a faulty variant: the value is written without its closing quote
fmt_ParseError_unclosed(k) ==
    <<"Cannot parse ", BT, "\"">> \o escape_all(k.value)
        \o <<BT, " to a ", BT, k.expected_type, BT>>

fmt_ParseError(k) ==
    <<"Cannot parse ", BT>> \o fmt_debug_str(k.value)
        \o <<BT, " to a ", BT, k.expected_type, BT>>

fmt_ParseErrorAtIndex(k) ==
    <<"Cannot parse value at index ">> \o fmt_usize(k.index) \o <<" with value ", BT>>
        \o fmt_debug_str(k.value) \o <<BT, " to a ", BT, k.expected_type, BT>>

ErrorKind_fmt(k) ==
    CASE k.tag = "Message"                 -> fmt_Message(k)
      [] k.tag = "InvalidUtf8InPathParam"  -> fmt_InvalidUtf8InPathParam(k)
      [] k.tag = "WrongNumberOfParameters" -> fmt_WrongNumberOfParameters(k)
      [] k.tag = "UnsupportedType"         -> fmt_UnsupportedType(k)
      [] k.tag = "ParseErrorAtKey"         -> fmt_ParseErrorAtKey(k)
      [] k.tag = "ParseError"              -> fmt_ParseError(k)
      [] k.tag = "ParseErrorAtIndex"       -> fmt_ParseErrorAtIndex(k)

(***************************************************************************)
(* Responses                                                               *)
(***************************************************************************)
BAD_REQUEST == 400
INTERNAL_SERVER_ERROR == 500
NOT_FOUND == 404
DefaultVersion == "HTTP/1.1"

\* IntoResponse for (StatusCode, String): the status and the text as the body
tuple_into_response(status, body) ==
    [status |-> status, version |-> DefaultVersion, headers |-> <<>>, body |-> body]

\* a faulty variant: every kind is answered as a client error
into_response_all_client(k) ==
    tuple_into_response(BAD_REQUEST, <<"Invalid URL: ">> \o ErrorKind_fmt(k))

\* impl IntoResponse for FailedToDeserializePathParams (path.rs 374-391)
FailedToDeserializePathParams_into_response(k) ==
    IF k.tag \in {"Message", "InvalidUtf8InPathParam", "ParseError",
                  "ParseErrorAtIndex", "ParseErrorAtKey"}
    THEN tuple_into_response(BAD_REQUEST, <<"Invalid URL: ">> \o ErrorKind_fmt(k))
    ELSE tuple_into_response(INTERNAL_SERVER_ERROR, ErrorKind_fmt(k))

(***************************************************************************)
(* PercentDecodedStr::new (path.rs 159): percent-decode the raw capture    *)
(* and require valid UTF-8.  A raw value is a sequence of one-character    *)
(* pieces.                                                                 *)
(***************************************************************************)
HexDigits == {"0", "1", "2", "3", "4", "5", "6", "7", "8", "9",
              "A", "B", "C", "D", "E", "F", "a", "b", "c", "d", "e", "f"}

hex_val(c) ==
    CASE c = "0" -> 0 [] c = "1" -> 1 [] c = "2" -> 2 [] c = "3" -> 3
      [] c = "4" -> 4 [] c = "5" -> 5 [] c = "6" -> 6 [] c = "7" -> 7
      [] c = "8" -> 8 [] c = "9" -> 9 [] c = "A" -> 10 [] c = "B" -> 11
      [] c = "C" -> 12 [] c = "D" -> 13 [] c = "E" -> 14 [] c = "F" -> 15
      [] c = "a" -> 10 [] c = "b" -> 11 [] c = "c" -> 12 [] c = "d" -> 13
      [] c = "e" -> 14 [] c = "f" -> 15

\* the printable ASCII characters, from the space (32) to the tilde (126)
AsciiChars ==
    <<
      " ", "!", "\"", "#", "$", "%", "&", "'", "(", ")", "*", "+",
      ",", "-", ".", "/", "0", "1", "2", "3", "4", "5", "6", "7",
      "8", "9", ":", ";", "<", "=", ">", "?", "@", "A", "B", "C",
      "D", "E", "F", "G", "H", "I", "J", "K", "L", "M", "N", "O",
      "P", "Q", "R", "S", "T", "U", "V", "W", "X", "Y", "Z", "[",
      "\\", "]", "^", "_", BT, "a", "b", "c", "d", "e", "f", "g",
      "h", "i", "j", "k", "l", "m", "n", "o", "p", "q", "r", "s",
      "t", "u", "v", "w", "x", "y", "z", "{", "|", "}", "~"
    >>

\* the byte of an ASCII character of a raw value
byte_of(c) == CHOOSE b \in 32..126 : AsciiChars[b - 31] = c

\* the character of a decoded Unicode scalar value
char_of(cp) ==
    IF cp \in 32..126 THEN AsciiChars[cp - 31]
    ELSE IF cp = 9 THEN "\t"
    ELSE IF cp = 10 THEN "\n"
    ELSE IF cp = 13 THEN "\r"
    ELSE scalar_name(cp)

RECURSIVE percent_decode(_)
\* "%XY" with two hex digits is the byte 16*X+Y; anything else, a lone or
\* cut-off "%" included, stands for itself
percent_decode(raw) ==
    IF raw = <<>> THEN <<>>
    ELSE IF /\ Head(raw) = "%"
            /\ Len(raw) >= 3
            /\ raw[2] \in HexDigits
            /\ raw[3] \in HexDigits
         THEN <<16 * hex_val(raw[2]) + hex_val(raw[3])>>
                  \o percent_decode(SubSeq(raw, 4, Len(raw)))
         ELSE <<byte_of(Head(raw))>> \o percent_decode(Tail(raw))

is_cont(b) == b \in 128..191

\* the number of bytes of the UTF-8 sequence at the head of bytes, 0 when
\* the head is no valid sequence (core::str::from_utf8)
utf8_width(bytes) ==
    LET b == bytes[1]
        n == Len(bytes)
    IN  IF b < 128 THEN 1
        ELSE IF b \in 194..223
             THEN IF n >= 2 /\ is_cont(bytes[2]) THEN 2 ELSE 0
        ELSE IF b \in 224..239
             THEN IF /\ n >= 3
                     /\ is_cont(bytes[2])
                     /\ is_cont(bytes[3])
                     /\ (b = 224 => bytes[2] >= 160)
                     /\ (b = 237 => bytes[2] <= 159)
                  THEN 3 ELSE 0
        ELSE IF b \in 240..244
             THEN IF /\ n >= 4
                     /\ is_cont(bytes[2])
                     /\ is_cont(bytes[3])
                     /\ is_cont(bytes[4])
                     /\ (b = 240 => bytes[2] >= 144)
                     /\ (b = 244 => bytes[2] <= 143)
                  THEN 4 ELSE 0
        ELSE 0

\* the scalar value of a valid sequence of w bytes at the head of bytes
utf8_scalar(bytes, w) ==
    CASE w = 1 -> bytes[1]
      [] w = 2 -> (bytes[1] % 32) * 64 + (bytes[2] % 64)
      [] w = 3 -> (bytes[1] % 16) * 4096 + (bytes[2] % 64) * 64 + (bytes[3] % 64)
      [] w = 4 -> (bytes[1] % 8) * 262144 + (bytes[2] % 64) * 4096
                      + (bytes[3] % 64) * 64 + (bytes[4] % 64)

RECURSIVE from_utf8(_)
\* [ok |-> TRUE, s |-> the characters] or [ok |-> FALSE, s |-> <<>>]
from_utf8(bytes) ==
    IF bytes = <<>> THEN [ok |-> TRUE, s |-> <<>>]
    ELSE LET w == utf8_width(bytes)
         IN  IF w = 0 THEN [ok |-> FALSE, s |-> <<>>]
             ELSE LET rest == from_utf8(SubSeq(bytes, w + 1, Len(bytes)))
                  IN  IF rest.ok
                      THEN [ok |-> TRUE,
                            s |-> <<char_of(utf8_scalar(bytes, w))>> \o rest.s]
                      ELSE rest

\* PercentDecodedStr::new: Some(decoded) as ok, None as not ok
PercentDecodedStr_new(raw) == from_utf8(percent_decode(raw))

(***************************************************************************)
(* Params: the capture store, an ordered list of [key, value] with unique  *)
(* keys; the values are raw, still percent-encoded                         *)
(***************************************************************************)
\* the pieces raw values are built from: a plain character, an escaped
\* ASCII character, the two bytes of U+00E9 one by one, a lone percent sign
RawUnits == {<<"7">>, <<"%", "3", "7">>, <<"%", "C", "3">>, <<"%", "A", "9">>,
             <<"%">>}

RECURSIVE UnitsUpTo(_)
UnitsUpTo(n) ==
    IF n = 0 THEN {<<>>}
    ELSE LET shorter == UnitsUpTo(n - 1)
         IN  shorter \cup {s \o u : s \in shorter, u \in RawUnits}

RawValues == UnitsUpTo(MaxUnits)

Capture(k, v) == [key |-> k, value |-> v]

\* Params::new()
Params_new == <<>>

\* the entry of cap's key is set to cap, at its place when the key is
\* stored already and at the end otherwise
Params_insert(store, cap) ==
    IF \E i \in DOMAIN store : store[i].key = cap.key
    THEN [i \in DOMAIN store |-> IF store[i].key = cap.key THEN cap ELSE store[i]]
    ELSE Append(store, cap)

RECURSIVE Params_merge(_, _)
\* Params::merge: the incoming entries win on a key collision
Params_merge(store, incoming) ==
    IF incoming = <<>> THEN store
    ELSE Params_merge(Params_insert(store, Head(incoming)), Tail(incoming))

\* a request whose extensions hold no Params
NoParamsRequest == [has_params |-> FALSE, params |-> <<>>]

\* a faulty variant: a Params already held is replaced by the incoming one
merge_extensions_replace(r, params) ==
    [r EXCEPT !.has_params = TRUE, !.params = params]

\* Application::merge_extensions (lib.rs 48-58): the request afterwards
merge_extensions(r, params) ==
    IF r.has_params
    THEN [r EXCEPT !.params = Params_merge(r.params, params)]
    ELSE [r EXCEPT !.has_params = TRUE, !.params = params]

(***************************************************************************)
(* PathDeserializer: T::deserialize(PathDeserializer::new(&params))        *)
(***************************************************************************)
U32 == "u32"
StringTy == "alloc::string::String"

Targets ==
    { [shape |-> "scalar",   tys |-> <<U32>>,           names |-> <<>>],
      [shape |-> "scalar",   tys |-> <<StringTy>>,      names |-> <<>>],
      [shape |-> "sequence", tys |-> <<U32, StringTy>>, names |-> <<>>],
      [shape |-> "map",      tys |-> <<U32>>,           names |-> <<>>],
      [shape |-> "record",   tys |-> <<U32, StringTy>>,
                             names |-> <<<<"id">>, <<"user_id">>>>],
      [shape |-> "nested",   tys |-> <<>>,              names |-> <<>>] }

\* no handler has run: T is not known yet
NoTarget == [shape |-> "none", tys |-> <<>>, names |-> <<>>]

IsDigit(c) == c \in {"0", "1", "2", "3", "4", "5", "6", "7", "8", "9"}

RECURSIVE digits_value(_)
digits_value(s) ==
    IF s = <<>> THEN 0
    ELSE 10 * digits_value(SubSeq(s, 1, Len(s) - 1)) + hex_val(s[Len(s)])

\* str::parse::<T>() of a decoded capture
parse_value(ty, s) ==
    IF ty = StringTy THEN [ok |-> TRUE, ty |-> ty, n |-> 0, s |-> s]
    ELSE IF s # <<>> /\ \A i \in DOMAIN s : IsDigit(s[i])
         THEN [ok |-> TRUE, ty |-> ty, n |-> digits_value(s), s |-> <<>>]
         ELSE [ok |-> FALSE, ty |-> ty, n |-> 0, s |-> <<>>]

NoKind == [tag |-> "none"]
DeOk(items) == [ok |-> TRUE, value |-> items, kind |-> NoKind]
DeErr(k) == [ok |-> FALSE, value |-> <<>>, kind |-> k]

WrongNumber(got, expected) ==
    [tag |-> "WrongNumberOfParameters", got |-> got, expected |-> expected]

\* the capture at index i parsed into type ty
Item(caps, i, ty) == [key |-> caps[i].key, v |-> parse_value(ty, caps[i].value)]

deserialize_scalar(t, caps) ==
    IF Len(caps) # 1 THEN DeErr(WrongNumber(Len(caps), 1))
    ELSE LET it == Item(caps, 1, t.tys[1])
         IN  IF it.v.ok THEN DeOk(<<it>>)
             ELSE DeErr([tag |-> "ParseError", value |-> caps[1].value,
                         expected_type |-> t.tys[1]])

deserialize_sequence(t, caps) ==
    IF Len(caps) # Len(t.tys) THEN DeErr(WrongNumber(Len(caps), Len(t.tys)))
    ELSE LET items == [i \in DOMAIN caps |-> Item(caps, i, t.tys[i])]
             bad == {i \in DOMAIN caps : ~items[i].v.ok}
         IN  IF bad = {} THEN DeOk(items)
             ELSE LET i == CHOOSE j \in bad : \A m \in bad : j <= m
                  IN  DeErr([tag |-> "ParseErrorAtIndex", index |-> i - 1,
                             value |-> caps[i].value, expected_type |-> t.tys[i]])

deserialize_map(t, caps) ==
    LET items == [i \in DOMAIN caps |-> Item(caps, i, t.tys[1])]
        bad == {i \in DOMAIN caps : ~items[i].v.ok}
    IN  IF bad = {} THEN DeOk(items)
        ELSE LET i == CHOOSE j \in bad : \A m \in bad : j <= m
             IN  DeErr([tag |-> "ParseErrorAtKey", key |-> caps[i].key,
                        value |-> caps[i].value, expected_type |-> t.tys[1]])

\* the index of the capture named as field f, 0 when there is none
CaptureOf(caps, name) ==
    IF \E i \in DOMAIN caps : caps[i].key = name
    THEN CHOOSE i \in DOMAIN caps : caps[i].key = name
    ELSE 0

deserialize_record(t, caps) ==
    IF Len(caps) # Len(t.names) THEN DeErr(WrongNumber(Len(caps), Len(t.names)))
    ELSE LET missing == {f \in DOMAIN t.names : CaptureOf(caps, t.names[f]) = 0}
             items == [f \in DOMAIN t.names |->
                          IF f \in missing
                          THEN [key |-> t.names[f], v |-> parse_value(StringTy, <<>>)]
                          ELSE Item(caps, CaptureOf(caps, t.names[f]), t.tys[f])]
             \* the captures are visited in store order
             bad == {i \in DOMAIN caps :
                        \E f \in DOMAIN t.names :
                            /\ CaptureOf(caps, t.names[f]) = i
                            /\ ~items[f].v.ok}
         IN  IF bad # {}
             THEN LET i == CHOOSE j \in bad : \A m \in bad : j <= m
                      f == CHOOSE g \in DOMAIN t.names : t.names[g] = caps[i].key
                  IN  DeErr([tag |-> "ParseErrorAtKey", key |-> caps[i].key,
                             value |-> caps[i].value, expected_type |-> t.tys[f]])
             ELSE IF missing # {}
             THEN LET f == CHOOSE g \in missing : \A m \in missing : g <= m
                  IN  DeErr([tag |-> "Message",
                             msg |-> <<"missing field ", BT>> \o t.names[f] \o <<BT>>])
             ELSE DeOk(items)

PathDeserializer_deserialize(t, caps) ==
    CASE t.shape = "scalar"   -> deserialize_scalar(t, caps)
      [] t.shape = "sequence" -> deserialize_sequence(t, caps)
      [] t.shape = "map"      -> deserialize_map(t, caps)
      [] t.shape = "record"   -> deserialize_record(t, caps)
      [] t.shape = "nested"   -> DeErr([tag |-> "UnsupportedType", name |-> "map"])

(***************************************************************************)
(* impl FromRequest for Path<T> (path.rs 146-177)                          *)
(***************************************************************************)
InvalidUtf8(k) == [tag |-> "InvalidUtf8InPathParam", key |-> k]

\* a faulty variant: every capture is decoded and the last failure is reported
RECURSIVE collect_decoded_last(_)
collect_decoded_last(store) ==
    IF store = <<>> THEN [ok |-> TRUE, caps |-> <<>>, key |-> <<>>]
    ELSE LET d == PercentDecodedStr_new(Head(store).value)
             rest == collect_decoded_last(Tail(store))
         IN  IF ~rest.ok THEN rest
             ELSE IF ~d.ok
                  THEN [ok |-> FALSE, caps |-> <<>>, key |-> Head(store).key]
                  ELSE [ok |-> TRUE,
                        caps |-> <<Capture(Head(store).key, d.s)>> \o rest.caps,
                        key |-> <<>>]

RECURSIVE collect_decoded(_)
\* .iter().map(..).collect::<Result<Vec<_>, _>>() (path.rs 157-169): the
\* decoded captures in store order, or the key of the first capture that
\* does not decode; the captures after it are not looked at
collect_decoded(store) ==
    IF store = <<>> THEN [ok |-> TRUE, caps |-> <<>>, key |-> <<>>]
    ELSE LET d == PercentDecodedStr_new(Head(store).value)
         IN  IF ~d.ok
             THEN [ok |-> FALSE, caps |-> <<>>, key |-> Head(store).key]
             ELSE LET rest == collect_decoded(Tail(store))
                  IN  IF rest.ok
                      THEN [ok |-> TRUE,
                            caps |-> <<Capture(Head(store).key, d.s)>> \o rest.caps,
                            key |-> <<>>]
                      ELSE rest

\* no extraction has run
NoResult ==
    [req |-> NoParamsRequest, outcome |-> "none", value |-> <<>>,
     kind |-> NoKind, de_calls |-> <<>>]

\* what from_request leaves and returns, given what the deserializer was
\* handed (de_calls) and what came of it
Extracted(r, outcome, value, k, de_calls) ==
    [req |-> r, outcome |-> outcome, value |-> value, kind |-> k,
     de_calls |-> de_calls]

\* a faulty variant: the Params is taken out of the extensions, not borrowed
Path_from_request_take(r, t) ==
    IF ~r.has_params THEN Extracted(r, "panic", <<>>, NoKind, <<>>)
    ELSE LET c == collect_decoded(r.params)
             left == NoParamsRequest
         IN  IF ~c.ok
             THEN Extracted(left, "rejected", <<>>, InvalidUtf8(c.key), <<>>)
             ELSE LET d == PathDeserializer_deserialize(t, c.caps)
                  IN  Extracted(left, IF d.ok THEN "ok" ELSE "rejected",
                                d.value, d.kind, <<c.caps>>)

\* Path::<T>::from_request: "panic" is the unwrap of a missing Params
Path_from_request(r, t) ==
    IF ~r.has_params THEN Extracted(r, "panic", <<>>, NoKind, <<>>)
    ELSE LET c == collect_decoded(r.params)
         IN  IF ~c.ok
             THEN Extracted(r, "rejected", <<>>, InvalidUtf8(c.key), <<>>)
             ELSE LET d == PathDeserializer_deserialize(t, c.caps)
                  IN  Extracted(r, IF d.ok THEN "ok" ELSE "rejected",
                                d.value, d.kind, <<c.caps>>)

(***************************************************************************)
(* SpecErr: a rejection of every kind is rendered and turned into a        *)
(* response                                                                *)
(***************************************************************************)
\* the server's state while it is not looked at
IdleServe ==
    /\ acceptor = "idle"
    /\ accept_calls = 0
    /\ accept_failed = FALSE
    /\ serve_result = "pending"
    /\ workers = <<>>

\* the Vec<u8> extractor's state while it is not looked at
NoVecRequest ==
    [method |-> "none", uri |-> "none", version |-> "none", headers |-> <<>>,
     extensions |-> NoParamsRequest, body |-> <<>>]

IdleVec ==
    /\ vreq = NoVecRequest
    /\ vreq0 = NoVecRequest
    /\ vres = <<>>
    /\ vpc = "idle"

\* merge_extensions' state while it is not looked at
NoMergeCall == [req |-> NoParamsRequest, params |-> <<>>]

IdleMerge ==
    /\ mreq = NoParamsRequest
    /\ marg = Params_new
    /\ mcall = NoMergeCall
    /\ mpc = "idle"

\* the extractor's state while it is not looked at
IdlePath ==
    /\ req = NoParamsRequest
    /\ target = NoTarget
    /\ xres = NoResult
    /\ xpc = "idle"

InitErr ==
    /\ kind \in ErrorKind
    /\ rendered = NoText
    /\ eresp = NoResponse
    /\ epc = "rejection"
    /\ IdlePath
    /\ IdleServe
    /\ IdleMerge
    /\ IdleVec

\* impl Display for FailedToDeserializePathParams: to_string()
Rejection_to_string ==
    /\ epc = "rejection"
    /\ rendered = NoText
    /\ rendered' = [done |-> TRUE, text |-> ErrorKind_fmt(kind)]
    /\ UNCHANGED <<kind, eresp, epc>>
    /\ UNCHANGED varsPath
    /\ UNCHANGED varsServe
    /\ UNCHANGED varsMerge
    /\ UNCHANGED varsVec

\* into_response(self)
IntoResponse ==
    /\ epc = "rejection"
    /\ eresp' = FailedToDeserializePathParams_into_response(kind)
    /\ epc' = "responded"
    /\ UNCHANGED <<kind, rendered>>
    /\ UNCHANGED varsPath
    /\ UNCHANGED varsServe
    /\ UNCHANGED varsMerge
    /\ UNCHANGED varsVec

NextErr == Rejection_to_string \/ IntoResponse

SpecErr == InitErr /\ [][NextErr]_vars

(***************************************************************************)
(* SpecPath: the router fills the capture store, the handler's Path<T>     *)
(* extractor runs (and runs again), a rejection is turned into a response  *)
(***************************************************************************)
\* what a router hands to merge_extensions: no capture, or one
IncomingParams ==
    {Params_new} \cup {<<Capture(k, v)>> : k \in Keys, v \in RawValues}

InitPath ==
    /\ req = NoParamsRequest
    /\ target = NoTarget
    /\ xres = NoResult
    /\ xpc = "routing"
    /\ kind = NoKind
    /\ rendered = NoText
    /\ eresp = NoResponse
    /\ epc = "idle"
    /\ IdleServe
    /\ IdleMerge
    /\ IdleVec

\* a router's call of Application::merge_extensions
Router_merge ==
    /\ xpc = "routing"
    /\ \E params \in IncomingParams : req' = merge_extensions(req, params)
    /\ UNCHANGED <<target, xres, xpc>>
    /\ UNCHANGED varsErr
    /\ UNCHANGED varsServe
    /\ UNCHANGED varsMerge
    /\ UNCHANGED varsVec

\* the handler's extractor: Path::<T>::from_request(&mut req), T being
\* the handler's parameter type, the same at every call
Extract ==
    /\ xpc \in {"routing", "extracted"}
    /\ \E t \in Targets :
          /\ xpc = "extracted" => t = target
          /\ target' = t
          /\ LET r == Path_from_request(req, t)
             IN  /\ req' = r.req
                 /\ xres' = r
    /\ xpc' = IF xpc = "routing" THEN "extracted" ELSE "extracted_again"
    /\ UNCHANGED varsErr
    /\ UNCHANGED varsServe
    /\ UNCHANGED varsMerge
    /\ UNCHANGED varsVec

\* the rejection's into_response
Rejection_into_response ==
    /\ xpc \in {"extracted", "extracted_again"}
    /\ xres.outcome = "rejected"
    /\ epc = "idle"
    /\ kind' = xres.kind
    /\ eresp' = FailedToDeserializePathParams_into_response(xres.kind)
    /\ epc' = "responded"
    /\ UNCHANGED rendered
    /\ UNCHANGED varsPath
    /\ UNCHANGED varsServe
    /\ UNCHANGED varsMerge
    /\ UNCHANGED varsVec

NextPath == Router_merge \/ Extract \/ Rejection_into_response

SpecPath == InitPath /\ [][NextPath]_vars

(***************************************************************************)
(* SpecMerge: one call of Application::merge_extensions (lib.rs 48-58) on  *)
(* every request and every params up to a size                             *)
(***************************************************************************)
MergeKeys == Keys \cup {<<"team_id">>}
MergeValues == {<<"7">>, <<"%", "3", "7">>}

KeySet(store) == {store[i].key : i \in DOMAIN store}

\* every Params of at most n captures; a Params holds a key once
RECURSIVE StoresUpTo(_)
StoresUpTo(n) ==
    IF n = 0 THEN {Params_new}
    ELSE LET shorter == StoresUpTo(n - 1)
         IN  shorter \cup
             UNION {{Params_insert(st, Capture(k, v)) :
                        k \in MergeKeys \ KeySet(st), v \in MergeValues} :
                    st \in shorter}

MergeStores == StoresUpTo(MaxStore)

\* the extensions hold no Params, or hold one (empty or populated)
MergeRequests ==
    {NoParamsRequest} \cup {[has_params |-> TRUE, params |-> st] : st \in MergeStores}

InitMerge ==
    /\ mreq \in MergeRequests
    /\ marg \in MergeStores
    /\ mcall = NoMergeCall
    /\ mpc = "call"
    /\ kind = NoKind
    /\ rendered = NoText
    /\ eresp = NoResponse
    /\ epc = "idle"
    /\ IdlePath
    /\ IdleServe
    /\ IdleVec

\* Application::merge_extensions(&mut request, &mut params): params is only
\* cloned (lib.rs 52, 55)
Merge_call ==
    /\ mpc = "call"
    /\ mcall' = [req |-> mreq, params |-> marg]
    /\ mreq' = merge_extensions(mreq, marg)
    /\ marg' = marg
    /\ mpc' = "merged"
    /\ UNCHANGED <<varsErr, varsPath, varsServe, varsVec>>

NextMerge == Merge_call

SpecMerge == InitMerge /\ [][NextMerge]_vars

(***************************************************************************)
(* SpecVec: a handler's Vec<u8> extractor (extract/vec.rs 7-14), called    *)
(* once and once more on every request up to a body length                 *)
(***************************************************************************)
\* the bytes a body is made of: the least, an ASCII letter, the greatest
BodyBytes == {0, 104, 255}

RECURSIVE BodiesUpTo(_)
BodiesUpTo(n) ==
    IF n = 0 THEN {<<>>}
    ELSE LET shorter == BodiesUpTo(n - 1)
         IN  shorter \cup {Append(b, x) : b \in shorter, x \in BodyBytes}

Bodies == BodiesUpTo(MaxBodyLen)

\* Request<Vec<u8>>: method, URI, version, headers, extensions and body
VecRequests ==
    [method : {"GET", "POST"},
     uri : {"/", "/users/%37"},
     version : {"HTTP/1.0", "HTTP/1.1"},
     headers : {<<>>, <<<<"content-length", <<"2">>>>>>},
     extensions : {NoParamsRequest,
                   [has_params |-> TRUE,
                    params |-> <<Capture(<<"id">>, <<"7">>)>>]},
     body : Bodies]

\* a faulty variant: the body is copied and stays in the request
Vec_from_request_clone(r) ==
    [req |-> r, result |-> [ok |-> TRUE, value |-> r.body]]

\* fn from_request(req: &mut Request) -> Result<Vec<u8>, Infallible>
\* (vec.rs 10-13): mem::take leaves Vec::default() in the body's place
Vec_from_request(r) ==
    [req |-> [r EXCEPT !.body = <<>>],
     result |-> [ok |-> TRUE, value |-> r.body]]

InitVec ==
    /\ vreq \in VecRequests
    /\ vreq0 = vreq
    /\ vres = <<>>
    /\ vpc = "handler"
    /\ kind = NoKind
    /\ rendered = NoText
    /\ eresp = NoResponse
    /\ epc = "idle"
    /\ IdlePath
    /\ IdleServe
    /\ IdleMerge

\* Vec::<u8>::from_request(&mut req), the first call and a second one
Vec_extract ==
    /\ vpc = "handler"
    /\ Len(vres) < 2
    /\ LET x == Vec_from_request(vreq)
       IN  /\ vreq' = x.req
           /\ vres' = Append(vres, x.result)
    /\ UNCHANGED <<vreq0, vpc>>
    /\ UNCHANGED <<varsErr, varsPath, varsServe, varsMerge>>

NextVec == Vec_extract

SpecVec == InitVec /\ [][NextVec]_vars

(***************************************************************************)
(* Application::serve (lib.rs 60-104): the acceptor and, per accepted      *)
(* connection, a linked process running parse, dispatch, finalize, write   *)
(***************************************************************************)
Versions == {"HTTP/1.0", "HTTP/1.1"}
Paths == {"/", "/users/%37"}

\* what core::parse_request returns on success: requests that differ in
\* version and in path
Requests ==
    {[version |-> "HTTP/1.0", path |-> "/"],
     [version |-> "HTTP/1.1", path |-> "/users/%37"]}

\* the failures of core::parse_request
ParseFailures == {"malformed", "too_large"}

\* IntoResponse of a parse failure: a status and a text, no more
ParseError_into_response(e) ==
    IF e = "too_large"
    THEN tuple_into_response(413, <<"Request too large">>)
    ELSE tuple_into_response(BAD_REQUEST, <<"Bad request">>)

\* defaults::err_404(): the fixed not-found response
err_404 == tuple_into_response(NOT_FOUND, <<"Not found">>)

\* a response a handler may return: its own version, a Content-Length of
\* its own that does not fit the body, and a header of another name after it
StaleResponse ==
    [status |-> 200, version |-> "HTTP/2.0",
     headers |-> <<<<"content-length", <<"9">>>>, <<"x-a", <<"1">>>>>>,
     body |-> <<"hello">>]

\* the response of a handler whose Path extractor succeeded
OkResponse ==
    [status |-> 200, version |-> DefaultVersion, headers |-> <<>>, body |-> <<>>]

\* what the router does with a request: no route matches; a handler that
\* returns a response; a handler that panics; a handler taking a Path<u32>,
\* reached with the captures merged into the extensions or without
Handlers ==
    {[h |-> "no_route", merges |-> FALSE, captures |-> <<>>],
     [h |-> "plain",    merges |-> FALSE, captures |-> <<>>],
     [h |-> "panic",    merges |-> FALSE, captures |-> <<>>],
     [h |-> "path",     merges |-> FALSE, captures |-> <<>>],
     [h |-> "path",     merges |-> TRUE,  captures |-> <<>>],
     [h |-> "path",     merges |-> TRUE,
      captures |-> <<Capture(<<"id">>, <<"%", "3", "7">>)>>],
     [h |-> "path",     merges |-> TRUE,
      captures |-> <<Capture(<<"id">>, <<"%", "C", "3">>)>>]}

PathU32 == [shape |-> "scalar", tys |-> <<U32>>, names |-> <<>>]

\* handler(request, params, reader): Result<Response, RouteError>, or a panic.
\* The router adds the captures of the matched route to the params it was
\* handed and merges them into the request's extensions; seen is what the
\* handler's extractors then find there.
Router_call(h, params) ==
    CASE h.h = "no_route" ->
            [tag |-> "RouteNotMatch", resp |-> NoResponse, seen |-> NoParamsRequest]
      [] h.h = "plain"    ->
            [tag |-> "Ok", resp |-> StaleResponse, seen |-> NoParamsRequest]
      [] h.h = "panic"    ->
            [tag |-> "panic", resp |-> NoResponse, seen |-> NoParamsRequest]
      [] h.h = "path"     ->
            LET r == IF h.merges
                     THEN merge_extensions(NoParamsRequest,
                                           Params_merge(params, h.captures))
                     ELSE NoParamsRequest
                x == Path_from_request(r, PathU32)
            IN  CASE x.outcome = "panic" ->
                        [tag |-> "panic", resp |-> NoResponse, seen |-> r]
                  [] x.outcome = "ok"    ->
                        [tag |-> "Ok", resp |-> OkResponse, seen |-> r]
                  [] x.outcome = "rejected" ->
                        [tag |-> "ExtractorError",
                         resp |-> FailedToDeserializePathParams_into_response(x.kind),
                         seen |-> r]

\* a faulty variant: every failure of dispatch becomes the default 404
RouteError_into_response_404(err) == err_404

\* impl IntoResponse for RouteError (lib.rs 118-125)
RouteError_into_response(err) ==
    IF err.tag = "ExtractorError" THEN err.resp ELSE err_404

\* no call of the handler has returned yet
NoDispatch == [tag |-> "none", resp |-> NoResponse, seen |-> NoParamsRequest]

\* the router the Application was constructed with (lib.rs 34-36), and the
\* same pointer carried as a usize and transmuted back (lib.rs 65, 67-70)
self_router == "router"
as_usize(f) == <<"usize", f>>
transmute_Router(u) == u[2]

\* UriReader::new(path) (lib.rs 86): a reader at the start of the path
UriReader_new(path) == [uri |-> path, cursor |-> "start"]

\* the arguments of handler(request, params, reader), none before the call
NoArgs == [handler |-> "none", params |-> Params_new,
           reader |-> UriReader_new("none"),
           route |-> [h |-> "none", merges |-> FALSE, captures |-> <<>>]]

\* a faulty variant: the capture store is one for all connections, and a
\* dispatch finds in it what an earlier dispatch left
dispatch_params_shared(w) ==
    LET left == {v \in DOMAIN workers :
                    v # w /\ workers[v].result.seen.params # <<>>}
    IN  IF left = {} THEN Params_new
        ELSE workers[CHOOSE v \in left : TRUE].result.seen.params

\* let params = Params::new() (lib.rs 85)
dispatch_params(w) == Params_new

\* a process just spawned by Process::spawn_link (lib.rs 64-66)
NewWorker ==
    [pc |-> "parse", parsed |-> "no", http_version |-> "none", path |-> "none",
     resp |-> NoResponse, dispatched |-> 0, attempts |-> 0, reported |-> 0,
     wire |-> <<>>, result |-> NoDispatch, steps |-> <<>>,
     handler_raw |-> as_usize(self_router), args |-> NoArgs]

Running == {"parse", "write_err", "dispatch", "finalize", "write"}

Init ==
    /\ acceptor = "binding"
    /\ accept_calls = 0
    /\ accept_failed = FALSE
    /\ serve_result = "pending"
    /\ workers = <<>>
    /\ kind = NoKind
    /\ rendered = NoText
    /\ eresp = NoResponse
    /\ epc = "idle"
    /\ IdlePath
    /\ IdleMerge
    /\ IdleVec

\* TcpListener::bind(addr)? (lib.rs 61)
BindOk ==
    /\ acceptor = "binding"
    /\ acceptor' = "accepting"
    /\ UNCHANGED <<accept_calls, accept_failed, serve_result, workers>>
    /\ UNCHANGED <<varsErr, varsPath, varsMerge, varsVec>>

BindErr ==
    /\ acceptor = "binding"
    /\ acceptor' = "returned"
    /\ serve_result' = "Err"
    /\ UNCHANGED <<accept_calls, accept_failed, workers>>
    /\ UNCHANGED <<varsErr, varsPath, varsMerge, varsVec>>

\* while let Ok((stream, _)) = listener.accept() { Process::spawn_link(..) }
AcceptOk ==
    /\ acceptor = "accepting"
    /\ accept_calls < MaxConns
    /\ accept_calls' = accept_calls + 1
    /\ workers' = Append(workers, NewWorker)
    /\ UNCHANGED <<acceptor, accept_failed, serve_result>>
    /\ UNCHANGED <<varsErr, varsPath, varsMerge, varsVec>>

\* a faulty variant: a failed accept is tried again
AcceptErr_retry ==
    /\ acceptor = "accepting"
    /\ ~accept_failed
    /\ accept_failed' = TRUE
    /\ UNCHANGED <<acceptor, accept_calls, serve_result, workers>>
    /\ UNCHANGED <<varsErr, varsPath, varsMerge, varsVec>>

\* listener.accept() is Err: the loop ends and serve returns Ok(())
AcceptErr ==
    /\ acceptor = "accepting"
    /\ accept_calls' = accept_calls + 1
    /\ accept_failed' = TRUE
    /\ acceptor' = "returned"
    /\ serve_result' = "Ok"
    /\ UNCHANGED workers
    /\ UNCHANGED <<varsErr, varsPath, varsMerge, varsVec>>

\* core::parse_request(stream.clone()) is Ok(request) (lib.rs 72-73, 82-83)
ParseOk(w) ==
    /\ workers[w].pc = "parse"
    /\ \E r \in Requests :
          workers' = [workers EXCEPT ![w] =
              [@ EXCEPT !.pc = "dispatch", !.parsed = "ok",
                        !.steps = Append(@, "parse"),
                        !.http_version = r.version, !.path = r.path]]
    /\ UNCHANGED <<acceptor, accept_calls, accept_failed, serve_result>>
    /\ UNCHANGED <<varsErr, varsPath, varsMerge, varsVec>>

\* a faulty variant: after a parse failure the worker goes on to dispatch
ParseErr_goes_on(w) ==
    /\ workers[w].pc = "parse"
    /\ \E e \in ParseFailures :
          workers' = [workers EXCEPT ![w] =
              [@ EXCEPT !.pc = "dispatch", !.parsed = "failed",
                        !.steps = Append(@, "parse"),
                        !.resp = ParseError_into_response(e)]]
    /\ UNCHANGED <<acceptor, accept_calls, accept_failed, serve_result>>
    /\ UNCHANGED <<varsErr, varsPath, varsMerge, varsVec>>

\* core::parse_request is Err(err): err.into_response() is what will be
\* written (lib.rs 74-75)
ParseErr(w) ==
    /\ workers[w].pc = "parse"
    /\ \E e \in ParseFailures :
          workers' = [workers EXCEPT ![w] =
              [@ EXCEPT !.pc = "write_err", !.parsed = "failed",
                        !.steps = Append(@, "parse"),
                        !.resp = ParseError_into_response(e)]]
    /\ UNCHANGED <<acceptor, accept_calls, accept_failed, serve_result>>
    /\ UNCHANGED <<varsErr, varsPath, varsMerge, varsVec>>

\* a faulty variant: the router is behind a lock that a worker holds from
\* its start to its end
Dispatch_locked(w) ==
    /\ workers[w].pc = "dispatch"
    /\ \A v \in 1..(w - 1) : workers[v].pc \notin Running
    /\ \E h \in Handlers :
          LET handler == transmute_Router(workers[w].handler_raw)
              params == dispatch_params(w)
              reader == UriReader_new(workers[w].path)
              res == Router_call(h, params)
              args == [handler |-> handler, params |-> params,
                       reader |-> reader, route |-> h]
          IN  workers' = [workers EXCEPT ![w] =
                  IF res.tag = "panic"
                  THEN [@ EXCEPT !.pc = "crashed", !.dispatched = 1,
                                 !.args = args, !.result = res,
                                 !.steps = Append(@, "dispatch")]
                  ELSE [@ EXCEPT !.pc = "finalize", !.dispatched = 1,
                                 !.args = args, !.result = res,
                                 !.steps = Append(@, "dispatch"),
                                 !.resp = IF res.tag = "Ok" THEN res.resp
                                          ELSE RouteError_into_response(res)]]
    /\ UNCHANGED <<acceptor, accept_calls, accept_failed, serve_result>>
    /\ UNCHANGED <<varsErr, varsPath, varsMerge, varsVec>>

\* handler(request, params, reader).unwrap_or_else(|err| err.into_response())
\* (lib.rs 85-88); a panic ends the process as failed
Dispatch(w) ==
    /\ workers[w].pc = "dispatch"
    /\ \E h \in Handlers :
          LET handler == transmute_Router(workers[w].handler_raw)
              params == dispatch_params(w)
              reader == UriReader_new(workers[w].path)
              res == Router_call(h, params)
              args == [handler |-> handler, params |-> params,
                       reader |-> reader, route |-> h]
          IN  workers' = [workers EXCEPT ![w] =
                  IF res.tag = "panic"
                  THEN [@ EXCEPT !.pc = "crashed", !.dispatched = 1,
                                 !.args = args, !.result = res,
                                 !.steps = Append(@, "dispatch")]
                  ELSE [@ EXCEPT !.pc = "finalize", !.dispatched = 1,
                                 !.args = args, !.result = res,
                                 !.steps = Append(@, "dispatch"),
                                 !.resp = IF res.tag = "Ok" THEN res.resp
                                          ELSE RouteError_into_response(res)]]
    /\ UNCHANGED <<acceptor, accept_calls, accept_failed, serve_result>>
    /\ UNCHANGED <<varsErr, varsPath, varsMerge, varsVec>>

\* the place of the last header of that name, 0 when there is none
LastOf(headers, name) ==
    LET idx == {i \in DOMAIN headers : headers[i][1] = name}
    IN  IF idx = {} THEN 0 ELSE CHOOSE i \in idx : \A j \in idx : j <= i

\* HeaderMap::append(name, value).  The headers are kept in the order the
\* map yields them, the values of one name together: a value is added after
\* the values its name already has, and a new name goes to the end.
HeaderMap_append(headers, name, value) ==
    LET last == LastOf(headers, name)
    IN  IF last = 0 THEN Append(headers, <<name, value>>)
        ELSE SubSeq(headers, 1, last) \o <<<<name, value>>>>
                 \o SubSeq(headers, last + 1, Len(headers))

\* a faulty variant: HeaderMap::insert, which replaces the values a name
\* already has
finalized_insert(resp, http_version) ==
    [resp EXCEPT
        !.version = http_version,
        !.headers = HeaderMap_append(
                        SelectSeq(@, LAMBDA hd : hd[1] # "content-length"),
                        "content-length", fmt_usize(ByteLen(resp.body)))]

\* the response with the Content-Length of its body appended and the
\* request's version set (lib.rs 90-94)
finalized(resp, http_version) ==
    [resp EXCEPT
        !.version = http_version,
        !.headers = HeaderMap_append(@, "content-length",
                                     fmt_usize(ByteLen(resp.body)))]

\* a faulty variant: the response keeps the version the handler gave it
Finalize_keeps_version(w) ==
    /\ workers[w].pc = "finalize"
    /\ workers' = [workers EXCEPT ![w] =
          [@ EXCEPT !.pc = "write", !.steps = Append(@, "finalize"),
                    !.resp = finalized(@, workers[w].resp.version)]]
    /\ UNCHANGED <<acceptor, accept_calls, accept_failed, serve_result>>
    /\ UNCHANGED <<varsErr, varsPath, varsMerge, varsVec>>

Finalize(w) ==
    /\ workers[w].pc = "finalize"
    /\ workers' = [workers EXCEPT ![w] =
          [@ EXCEPT !.pc = "write", !.steps = Append(@, "finalize"),
                    !.resp = finalized(@, workers[w].http_version)]]
    /\ UNCHANGED <<acceptor, accept_calls, accept_failed, serve_result>>
    /\ UNCHANGED <<varsErr, varsPath, varsMerge, varsVec>>

\* core::write_response(stream, response) is Ok (lib.rs 75, 96)
WriteOk(w) ==
    /\ workers[w].pc \in {"write", "write_err"}
    /\ workers' = [workers EXCEPT ![w] =
          [@ EXCEPT !.pc = "done", !.attempts = @ + 1,
                    !.steps = Append(@, "write"), !.path = "none",
                    !.args = NoArgs,
                    !.wire = Append(@, workers[w].resp), !.resp = NoResponse]]
    /\ UNCHANGED <<acceptor, accept_calls, accept_failed, serve_result>>
    /\ UNCHANGED <<varsErr, varsPath, varsMerge, varsVec>>

\* a faulty variant: a write that failed is tried once more
WriteErr_retries(w) ==
    /\ workers[w].pc \in {"write", "write_err"}
    /\ workers' = [workers EXCEPT ![w] =
          [@ EXCEPT !.pc = IF workers[w].attempts = 0 THEN @ ELSE "done",
                    !.attempts = @ + 1, !.reported = @ + 1,
                    !.steps = Append(@, "write"), !.path = "none",
                    !.args = NoArgs,
                    !.resp = IF workers[w].attempts = 0 THEN @ ELSE NoResponse,
                    !.result = NoDispatch]]
    /\ UNCHANGED <<acceptor, accept_calls, accept_failed, serve_result>>
    /\ UNCHANGED <<varsErr, varsPath, varsMerge, varsVec>>

\* core::write_response is Err: eprintln!, nothing else (lib.rs 75-78, 96-98)
WriteErr(w) ==
    /\ workers[w].pc \in {"write", "write_err"}
    /\ workers' = [workers EXCEPT ![w] =
          [@ EXCEPT !.pc = "done", !.attempts = @ + 1, !.reported = @ + 1,
                    !.steps = Append(@, "write"), !.path = "none",
                    !.args = NoArgs,
                    !.resp = NoResponse, !.result = NoDispatch]]
    /\ UNCHANGED <<acceptor, accept_calls, accept_failed, serve_result>>
    /\ UNCHANGED <<varsErr, varsPath, varsMerge, varsVec>>

\* Process::spawn_link (lib.rs 64): the processes are linked, and when one
\* of two linked processes fails the other is sent a signal that ends it.
\* The acceptor is ended by a worker that failed ...
LinkDied_acceptor ==
    /\ acceptor = "accepting"
    /\ \E w \in DOMAIN workers : workers[w].pc = "crashed"
    /\ acceptor' = "killed"
    /\ UNCHANGED <<accept_calls, accept_failed, serve_result, workers>>
    /\ UNCHANGED <<varsErr, varsPath, varsMerge, varsVec>>

\* ... and every worker still running is ended by the acceptor so ended
LinkDied_worker(w) ==
    /\ acceptor = "killed"
    /\ workers[w].pc \in Running
    /\ workers' = [workers EXCEPT ![w] =
          [@ EXCEPT !.pc = "killed", !.resp = NoResponse, !.path = "none",
                    !.result = NoDispatch, !.args = NoArgs]]
    /\ UNCHANGED <<acceptor, accept_calls, accept_failed, serve_result>>
    /\ UNCHANGED <<varsErr, varsPath, varsMerge, varsVec>>

\* each worker step, taken by any one of the spawned processes
Worker_ParseOk == \E w \in DOMAIN workers : ParseOk(w)
Worker_ParseErr == \E w \in DOMAIN workers : ParseErr(w)
Worker_Dispatch == \E w \in DOMAIN workers : Dispatch(w)
Worker_Finalize == \E w \in DOMAIN workers : Finalize(w)
Worker_WriteOk == \E w \in DOMAIN workers : WriteOk(w)
Worker_WriteErr == \E w \in DOMAIN workers : WriteErr(w)
Worker_LinkDied_worker == \E w \in DOMAIN workers : LinkDied_worker(w)

Next ==
    \/ BindOk
    \/ BindErr
    \/ AcceptOk
    \/ AcceptErr
    \/ LinkDied_acceptor
    \/ Worker_ParseOk
    \/ Worker_ParseErr
    \/ Worker_Dispatch
    \/ Worker_Finalize
    \/ Worker_WriteOk
    \/ Worker_WriteErr
    \/ Worker_LinkDied_worker

Spec == Init /\ [][Next]_vars

\* a step of the process spawned for the w-th connection
WorkerStep(w) ==
    /\ w \in DOMAIN workers
    /\ \/ ParseOk(w)
       \/ ParseErr(w)
       \/ Dispatch(w)
       \/ Finalize(w)
       \/ WriteOk(w)
       \/ WriteErr(w)

\* serve with one worker, the first, that may stop for good anywhere (a read
\* of the request, a handler or a write that never returns) while the
\* scheduler keeps running every other process that can take a step; whether
\* a connection arrives at the acceptor is left to the clients
SpecFair ==
    /\ Init
    /\ [][Next]_vars
    /\ \A w \in 2..MaxConns : WF_vars(WorkerStep(w))

(***************************************************************************)
(* Claims about the rendering and classification of rejections (SpecErr)   *)
(***************************************************************************)
ClientErrorTags ==
    {"Message", "InvalidUtf8InPathParam", "ParseError", "ParseErrorAtIndex",
     "ParseErrorAtKey"}
ServerErrorTags == {"WrongNumberOfParameters", "UnsupportedType"}

\* C1: into_response answers 400 with body "Invalid URL: " + the rendered
\* text for Message, InvalidUtf8InPathParam, ParseError, ParseErrorAtIndex and
\* ParseErrorAtKey, and 500 with the rendered text alone for
\* WrongNumberOfParameters and UnsupportedType, whatever the field values.
C1_StatusByKind ==
    epc = "responded" =>
        /\ kind.tag \in ClientErrorTags \cup ServerErrorTags
        /\ kind.tag \in ClientErrorTags =>
              /\ eresp.status = 400
              /\ eresp.body = <<"Invalid URL: ">> \o ErrorKind_fmt(kind)
        /\ kind.tag \in ServerErrorTags =>
              /\ eresp.status = 500
              /\ eresp.body = ErrorKind_fmt(kind)
        /\ rendered.done =>
              eresp.body \in {rendered.text, <<"Invalid URL: ">> \o rendered.text}

C1_Witness ==
    /\ epc = "responded"
    /\ kind.tag = "UnsupportedType"
    /\ eresp.status = 500
    /\ rendered.done

\* C8 as stated: the parse-failure kinds render as the literal template with
\* nothing but the raw value between the grave accents.
C8_RawValueBetweenTicks ==
    rendered.done =>
        /\ kind.tag = "ParseErrorAtKey" =>
              rendered.text =
                  <<"Cannot parse ", BT>> \o kind.key \o <<BT, " with value ", BT>>
                      \o kind.value \o <<BT, " to a ", BT, kind.expected_type, BT>>
        /\ kind.tag = "ParseErrorAtIndex" =>
              rendered.text =
                  <<"Cannot parse value at index ">> \o fmt_usize(kind.index)
                      \o <<" with value ", BT>>
                      \o kind.value \o <<BT, " to a ", BT, kind.expected_type, BT>>
        /\ kind.tag = "ParseError" =>
              rendered.text =
                  <<"Cannot parse ", BT>> \o kind.value
                      \o <<BT, " to a ", BT, kind.expected_type, BT>>

\* the value as "{:?}" writes it: a double quote, the value with each double
\* quote, backslash and control character backslash-escaped, a double quote
QuotedValue(v) == <<"\"">> \o escape_all(v) \o <<"\"">>

\* C8 as amended: between the grave accents stands the value in its Debug
\* form (double-quoted, with double quote, backslash and control characters
\* backslash-escaped), not the raw value; the rest of each template is literal.
C8_DebugValueBetweenTicks ==
    rendered.done =>
        /\ kind.tag = "ParseErrorAtKey" =>
              rendered.text =
                  <<"Cannot parse ", BT>> \o kind.key \o <<BT, " with value ", BT>>
                      \o QuotedValue(kind.value)
                      \o <<BT, " to a ", BT, kind.expected_type, BT>>
        /\ kind.tag = "ParseErrorAtIndex" =>
              rendered.text =
                  <<"Cannot parse value at index ">> \o fmt_usize(kind.index)
                      \o <<" with value ", BT>>
                      \o QuotedValue(kind.value)
                      \o <<BT, " to a ", BT, kind.expected_type, BT>>
        /\ kind.tag = "ParseError" =>
              rendered.text =
                  <<"Cannot parse ", BT>> \o QuotedValue(kind.value)
                      \o <<BT, " to a ", BT, kind.expected_type, BT>>

C8_Witness ==
    /\ rendered.done
    /\ kind.tag = "ParseError"
    /\ kind.value = <<"\t", ESC>>
    /\ rendered.text =
          <<"Cannot parse ", BT, "\"", "\\", "t", "\\", "u", "{", "1", "b", "}",
            "\"", BT, " to a ", BT, kind.expected_type, BT>>

\* C9: WrongNumberOfParameters{got, expected} renders as "Wrong number of
\* path arguments for `Path`. Expected {expected} but got {got}", followed
\* by the guidance suffix exactly when expected is 1, for every got; the
\* response is 500 with exactly that text as its body.
C9_WrongNumberText ==
    kind.tag = "WrongNumberOfParameters" =>
        LET base == <<"Wrong number of path arguments for ", BT, "Path", BT,
                      ". Expected ">> \o fmt_usize(kind.expected)
                        \o <<" but got ">> \o fmt_usize(kind.got)
            text == IF kind.expected = 1 THEN base \o GuidanceSuffix ELSE base
        IN  /\ rendered.done => rendered.text = text
            /\ epc = "responded" => eresp.status = 500 /\ eresp.body = text

C9_Witness ==
    /\ kind.tag = "WrongNumberOfParameters"
    /\ kind.got = 1
    /\ kind.expected = 10
    /\ rendered.done
    /\ epc = "responded"
    /\ Len(eresp.body) = Len(rendered.text)
    /\ eresp.body[6] = "1" /\ eresp.body[7] = "0" /\ eresp.body[9] = "1"

(***************************************************************************)
(* Claims about the Path extractor (SpecPath)                              *)
(***************************************************************************)
\* the places of the captures whose raw value does not decode to UTF-8
Undecodable(store) ==
    {i \in DOMAIN store : ~PercentDecodedStr_new(store[i].value).ok}

\* C5: from_request decodes the captures in store order; when one does not
\* decode to valid UTF-8 the result is InvalidUtf8InPathParam{key} with the
\* key of the first such capture and the deserializer is not invoked; when
\* all decode the deserializer is invoked exactly once, on all the decoded
\* captures in store order.  The rejection is answered 400 with the body
\* "Invalid URL: Invalid UTF-8 in `{key}`".
C5_FirstUndecodableRejects ==
    (xpc \in {"extracted", "extracted_again"} /\ req.has_params) =>
        LET bad == Undecodable(req.params)
        IN  IF bad # {}
            THEN LET first == CHOOSE i \in bad : \A j \in bad : i <= j
                 IN  /\ xres.outcome = "rejected"
                     /\ xres.kind = [tag |-> "InvalidUtf8InPathParam",
                                     key |-> req.params[first].key]
                     /\ xres.de_calls = <<>>
                     /\ epc = "responded" =>
                           /\ eresp.status = 400
                           /\ eresp.body =
                                 <<"Invalid URL: ", "Invalid UTF-8 in ", BT>>
                                     \o req.params[first].key \o <<BT>>
            ELSE /\ Len(xres.de_calls) = 1
                 /\ Len(xres.de_calls[1]) = Len(req.params)
                 /\ \A i \in DOMAIN req.params :
                       /\ xres.de_calls[1][i].key = req.params[i].key
                       /\ xres.de_calls[1][i].value =
                             PercentDecodedStr_new(req.params[i].value).s
                 /\ xres.kind.tag # "InvalidUtf8InPathParam"

C5_Witness ==
    /\ xpc = "extracted"
    /\ Len(req.params) = 2
    /\ Undecodable(req.params) = {1, 2}
    /\ xres.kind = [tag |-> "InvalidUtf8InPathParam", key |-> req.params[1].key]
    /\ xres.de_calls = <<>>
    /\ epc = "responded"

\* C10: from_request never changes the request's capture store: after the
\* call, whatever its outcome, the extensions hold the same Params (keys,
\* raw values, order), and the extractor run again gives the same result.
C10_StoreReadOnly ==
    [][xpc' # xpc =>
          /\ req' = req
          /\ xpc = "extracted" => xres' = xres]_vars

C10_Witness ==
    /\ xpc = "extracted_again"
    /\ xres.outcome = "ok"
    /\ req.has_params
    /\ Len(req.params) = 2
    /\ req.params[1].value = <<"%", "3", "7">>
    /\ xres.value[1].v.n = 7

(***************************************************************************)
(* Claims about Application::serve (Spec)                                  *)
(***************************************************************************)
\* the values of the response's Content-Length headers, in header order
ContentLengths(resp) ==
    LET idx == {i \in DOMAIN resp.headers : resp.headers[i][1] = "content-length"}
    IN  {resp.headers[i][2] : i \in idx}

\* C2: every response a worker writes to its connection, on every path
\* (dispatch result, converted dispatch failure, parse-failure response),
\* carries a Content-Length header equal to the byte length of its body.
C2_WrittenHasContentLength ==
    \A w \in DOMAIN workers :
        \A i \in DOMAIN workers[w].wire :
            fmt_usize(ByteLen(workers[w].wire[i].body))
                \in ContentLengths(workers[w].wire[i])

\* C3: a failure inside one worker never terminates the acceptor and never
\* terminates another worker.
C3_CrashIsolated ==
    /\ acceptor # "killed"
    /\ \A w \in DOMAIN workers : workers[w].pc # "killed"

\* C4: when parsing fails the worker writes the error response made from
\* the parse failure and ends; dispatch is never invoked for that connection.
C4_ParseFailureSkipsDispatch ==
    \A w \in DOMAIN workers :
        workers[w].parsed = "failed" =>
            /\ workers[w].dispatched = 0
            /\ workers[w].pc \in {"write_err", "done", "killed"}
            /\ workers[w].pc = "write_err" =>
                  /\ workers[w].attempts = 0
                  /\ \E e \in ParseFailures :
                        workers[w].resp = ParseError_into_response(e)
            /\ workers[w].pc = "done" =>
                  /\ workers[w].attempts = 1
                  /\ \/ workers[w].reported = 1 /\ workers[w].wire = <<>>
                     \/ \E e \in ParseFailures :
                           workers[w].wire = <<ParseError_into_response(e)>>

C4_Witness ==
    \E w \in DOMAIN workers :
        /\ workers[w].parsed = "failed"
        /\ workers[w].pc = "done"
        /\ workers[w].wire = <<ParseError_into_response("malformed")>>

\* C6: once listener.accept fails the loop ends: no further accept is
\* attempted, no further worker is spawned and serve has returned; before
\* that, every successful accept spawns exactly one worker.
C6_AcceptFailureEndsLoop ==
    /\ [](accept_failed => acceptor = "returned" /\ serve_result = "Ok")
    /\ [](Len(workers) = accept_calls - (IF accept_failed THEN 1 ELSE 0))
    /\ [][accept_failed =>
             /\ accept_failed'
             /\ accept_calls' = accept_calls
             /\ Len(workers') = Len(workers)]_vars
    /\ [][accept_calls' # accept_calls /\ ~accept_failed' =>
             /\ accept_calls' = accept_calls + 1
             /\ workers' = Append(workers, NewWorker)]_vars

C6_Witness ==
    /\ accept_failed
    /\ accept_calls = 2
    /\ Len(workers) = 1
    /\ workers[1].pc = "done"
    /\ serve_result = "Ok"

\* C7: for every connection whose request parsed, the response written has
\* the request's protocol version, whatever version the dispatch routine
\* set and whether it returned a Response, an ExtractorError or a
\* RouteNotMatch.
C7_VersionOfRequest ==
    \A w \in DOMAIN workers :
        workers[w].parsed = "ok" =>
            /\ workers[w].http_version \in Versions
            /\ \A i \in DOMAIN workers[w].wire :
                  workers[w].wire[i].version = workers[w].http_version
            /\ workers[w].pc = "write" =>
                  workers[w].resp.version = workers[w].http_version

C7_Witness ==
    \E w \in DOMAIN workers :
        /\ workers[w].parsed = "ok"
        /\ workers[w].http_version = "HTTP/1.0"
        /\ workers[w].pc = "done"
        /\ Len(workers[w].wire) = 1
        /\ workers[w].wire[1].status = 200
        /\ workers[w].wire[1].body = <<"hello">>
        /\ workers[w].wire[1].version = "HTTP/1.0"

(***************************************************************************)
(* Claims about the dispatch result and its conversion (Spec)              *)
(***************************************************************************)
\* s without its k-th element
RemoveAt(s, k) == SubSeq(s, 1, k - 1) \o SubSeq(s, k + 1, Len(s))

\* after is before with the version set and one Content-Length header added
\* that holds the byte length of the body and stands behind every other
\* Content-Length; status, body and the other headers are as they were
IsFinalized(after, before, version) ==
    /\ after.status = before.status
    /\ after.body = before.body
    /\ after.version = version
    /\ \E k \in DOMAIN after.headers :
          /\ after.headers[k] = <<"content-length", fmt_usize(ByteLen(before.body))>>
          /\ RemoveAt(after.headers, k) = before.headers
          /\ \A j \in DOMAIN after.headers :
                j > k => after.headers[j][1] # "content-length"

\* the response the worker goes on with after the handler returned res
Converted(res) ==
    CASE res.tag = "Ok"             -> res.resp
      [] res.tag = "ExtractorError" -> res.resp
      [] res.tag = "RouteNotMatch"  ->
            [status |-> 404, version |-> "HTTP/1.1", headers |-> <<>>,
             body |-> <<"Not found">>]

\* C11: a failure returned by dispatch is converted before finalization:
\* ExtractorError(resp) goes on as resp itself (status, headers and body
\* as they are), RouteNotMatch goes on as the fixed default 404 whatever the
\* request was; the converted response is then finalized (the request's
\* version, one Content-Length of its body appended) and written, the same
\* as a response the handler returned.
C11_FailureConverted ==
    \A w \in DOMAIN workers :
        LET wk == workers[w]
            conv == Converted(wk.result)
        IN  wk.result.tag \in {"Ok", "ExtractorError", "RouteNotMatch"} =>
               /\ wk.pc = "finalize" => wk.resp = conv
               /\ wk.pc = "write" => IsFinalized(wk.resp, conv, wk.http_version)
               /\ wk.pc = "done" =>
                     /\ Len(wk.wire) = 1
                     /\ IsFinalized(wk.wire[1], conv, wk.http_version)

\* both failures have been converted, finalized and written: a rejection of
\* the Path extractor on one connection, no route on another
C11_Witness ==
    \E w1, w2 \in DOMAIN workers :
        /\ workers[w1].result.tag = "ExtractorError"
        /\ workers[w1].pc = "done"
        /\ workers[w1].wire[1].status = 400
        /\ workers[w2].result.tag = "RouteNotMatch"
        /\ workers[w2].pc = "done"
        /\ workers[w2].wire[1].status = 404

(***************************************************************************)
(* Claims about merge_extensions (SpecMerge)                               *)
(***************************************************************************)
\* C12: after merge_extensions(request, params): extensions that held no
\* Params hold one equal to params; a populated Params merged with an empty
\* params is what it was; a populated Params merged with a params of other
\* keys has the keys of both and every capture it had; and the params
\* argument is what it was when the call began.
C12_MergeResult ==
    mpc = "merged" =>
        LET old == mcall.req
            inc == mcall.params
        IN  /\ ~old.has_params =>
                  mreq.has_params /\ mreq.params = inc
            /\ (old.has_params /\ old.params # <<>> /\ inc = <<>>) =>
                  mreq.has_params /\ mreq.params = old.params
            /\ (old.has_params /\ old.params # <<>>
                   /\ KeySet(old.params) \cap KeySet(inc) = {}) =>
                  /\ mreq.has_params
                  /\ KeySet(mreq.params) = KeySet(old.params) \cup KeySet(inc)
                  /\ \A i \in DOMAIN old.params :
                        \E j \in DOMAIN mreq.params : mreq.params[j] = old.params[i]
            /\ marg = inc

\* a populated store has been merged with a params of two other keys
C12_Witness ==
    /\ mpc = "merged"
    /\ mcall.req.has_params
    /\ Len(mcall.req.params) = 1
    /\ Len(mcall.params) = 2
    /\ KeySet(mcall.req.params) \cap KeySet(mcall.params) = {}
    /\ Len(mreq.params) = 3

(***************************************************************************)
(* Claims about the order of a worker's steps (Spec)                       *)
(***************************************************************************)
\* the place of a step in a worker's history, 0 when it has not happened
StepAt(w, name) ==
    IF \E i \in DOMAIN workers[w].steps : workers[w].steps[i] = name
    THEN CHOOSE i \in DOMAIN workers[w].steps : workers[w].steps[i] = name
    ELSE 0

StepCount(w, name) ==
    Cardinality({i \in DOMAIN workers[w].steps : workers[w].steps[i] = name})

\* C13: in every worker each of parse, dispatch, finalize, write happens at
\* most once; dispatch happens only after a parse that succeeded,
\* finalization only after dispatch, and the write only after finalization.
C13_StepsInOrder ==
    \A w \in DOMAIN workers :
        /\ \A name \in {"parse", "dispatch", "finalize", "write"} :
              StepCount(w, name) <= 1
        /\ StepAt(w, "dispatch") > 0 =>
              /\ workers[w].parsed = "ok"
              /\ 0 < StepAt(w, "parse")
              /\ StepAt(w, "parse") < StepAt(w, "dispatch")
        /\ StepAt(w, "finalize") > 0 =>
              /\ 0 < StepAt(w, "dispatch")
              /\ StepAt(w, "dispatch") < StepAt(w, "finalize")
        /\ StepAt(w, "write") > 0 =>
              /\ 0 < StepAt(w, "finalize")
              /\ StepAt(w, "finalize") < StepAt(w, "write")

(***************************************************************************)
(* Claims about finalization (Spec)                                        *)
(***************************************************************************)
\* how many headers of the response are Content-Length headers
ContentLengthCount(resp) ==
    Cardinality({i \in DOMAIN resp.headers : resp.headers[i][1] = "content-length"})

\* C14: finalization adds and never replaces: of a response that dispatch
\* returned, every header is still there afterwards with the value it had
\* and in the order it had (a Content-Length the handler set included),
\* there is one Content-Length header more than before, and the one added,
\* the last of them, holds the byte length of the body.
C14_FinalizeAppends ==
    [][\A w \in DOMAIN workers :
          (workers[w].pc = "finalize" /\ workers'[w].pc = "write") =>
             LET before == workers[w].resp
                 after == workers'[w].resp
                 k == LastOf(after.headers, "content-length")
             IN  /\ Len(after.headers) = Len(before.headers) + 1
                 /\ ContentLengthCount(after) = ContentLengthCount(before) + 1
                 /\ k > 0
                 /\ after.headers[k][2] = fmt_usize(ByteLen(before.body))
                 /\ RemoveAt(after.headers, k) = before.headers
                 /\ after.body = before.body]_vars

\* a response whose handler had set a Content-Length of 9 for a body of 5
\* bytes, and another header after it, has been finalized: it carries both
\* values, the handler's first, and the other header
C14_Witness ==
    \E w \in DOMAIN workers :
        /\ workers[w].pc = "write"
        /\ workers[w].result.tag = "Ok"
        /\ workers[w].resp.body = <<"hello">>
        /\ workers[w].resp.headers =
              <<<<"content-length", <<"9">>>>, <<"content-length", <<"5">>>>,
                <<"x-a", <<"1">>>>>>

(***************************************************************************)
(* Claims about the write of the response (Spec)                           *)
(***************************************************************************)
\* C15: a worker attempts at most one write, and the write is its last
\* step: a worker that ran to its end, after a failed parse or after
\* finalization, attempted exactly one.  A write that fails is reported once
\* and nothing else happens: nothing reaches the connection, no further
\* write is attempted, the worker ends as one whose write succeeded does
\* (it does not fail), and the acceptor and the other workers are as they
\* were.
C15_OneWriteAttempt ==
    /\ [](\A w \in DOMAIN workers :
            /\ workers[w].attempts <= 1
            /\ StepCount(w, "write") = workers[w].attempts
            /\ workers[w].reported <= workers[w].attempts
            /\ workers[w].pc = "done" => workers[w].attempts = 1
            /\ workers[w].pc # "done" => workers[w].attempts = 0
            /\ workers[w].reported = 1 => workers[w].wire = <<>>
            /\ workers[w].reported = 0 => Len(workers[w].wire) = workers[w].attempts)
    /\ [][\A w \in DOMAIN workers :
            /\ (workers'[w].reported # workers[w].reported) =>
                  /\ workers[w].pc \in {"write", "write_err"}
                  /\ workers'[w].pc = "done"
                  /\ workers'[w].reported = 1
                  /\ workers'[w].attempts = 1
                  /\ acceptor' = acceptor
                  /\ \A v \in DOMAIN workers \ {w} : workers'[v] = workers[v]
            /\ workers[w].pc = "done" => workers'[w] = workers[w]]_vars

\* the write of a finalized response has failed, the failure has been
\* reported, and the worker has ended
C15_Witness ==
    \E w \in DOMAIN workers :
        /\ workers[w].pc = "done"
        /\ workers[w].steps = <<"parse", "dispatch", "finalize", "write">>
        /\ workers[w].attempts = 1
        /\ workers[w].reported = 1
        /\ workers[w].wire = <<>>

(***************************************************************************)
(* Claims about what the workers share (Spec)                              *)
(***************************************************************************)
\* C16: every call of the handler gets an empty capture store, a reader at
\* the start of the path of the worker's own request, and the router the
\* Application was constructed with; what the handler's extractors find in
\* the request's extensions is the captures of this request's route and
\* nothing of another connection.  A step of one worker changes nothing of
\* another worker, and no step changes the router pointer a worker holds.
C16_NothingShared ==
    /\ [](\A w \in DOMAIN workers :
            LET wk == workers[w]
            IN  /\ wk.handler_raw = <<"usize", "router">>
                /\ (wk.dispatched = 1 /\ wk.pc \in {"finalize", "write", "crashed"}) =>
                      /\ wk.args.handler = "router"
                      /\ wk.args.params = <<>>
                      /\ wk.args.reader.uri = wk.path
                      /\ wk.args.reader.cursor = "start"
                      /\ wk.path \in Paths
                      /\ wk.result.seen =
                            IF wk.args.route.h = "path" /\ wk.args.route.merges
                            THEN [has_params |-> TRUE,
                                  params |-> wk.args.route.captures]
                            ELSE [has_params |-> FALSE, params |-> <<>>])
    /\ [][\A w \in DOMAIN workers :
            (workers'[w] # workers[w] /\ workers'[w].pc # "killed") =>
               \A v \in DOMAIN workers \ {w} : workers'[v] = workers[v]]_vars

\* two connections are being served at once, with different paths and
\* different captures, and each worker's extractor has seen its own capture
C16_Witness ==
    \E w1, w2 \in DOMAIN workers :
        /\ workers[w1].pc = "finalize"
        /\ workers[w2].pc = "finalize"
        /\ workers[w1].path = "/"
        /\ workers[w2].path = "/users/%37"
        /\ workers[w1].result.seen.params = <<[key |-> <<"id">>, value |-> <<"%", "C", "3">>]>>
        /\ workers[w2].result.seen.params = <<[key |-> <<"id">>, value |-> <<"%", "3", "7">>]>>

(***************************************************************************)
(* Claims about the progress of the connections (SpecFair)                 *)
(***************************************************************************)
\* C17: whatever the first worker does, and also when it never takes another
\* step, the acceptor's accept of the next connection can happen as long as
\* the acceptor is in its loop, and every other worker that was spawned
\* runs on: it ends having attempted its write, unless a handler panicked
\* (which is another matter than a worker that is blocked).  A worker once
\* spawned stays spawned and one that has ended stays ended, so "spawned
\* leads to ended" is "always eventually: not spawned, or ended".
C17_IndependentProgress ==
    /\ []((acceptor = "accepting" /\ accept_calls < MaxConns) => ENABLED AcceptOk)
    /\ \A w \in 2..MaxConns :
          []<>(\/ Len(workers) < w
               \/ (Len(workers) >= w /\ workers[w].pc = "done"
                      /\ workers[w].attempts = 1)
               \/ \E v \in DOMAIN workers : workers[v].pc = "crashed")

\* the first worker is still reading its request while a later connection
\* has been accepted and its worker has written its response
C17_Witness ==
    /\ Len(workers) >= 2
    /\ workers[1].pc = "parse"
    /\ workers[2].pc = "done"
    /\ Len(workers[2].wire) = 1

(***************************************************************************)
(* Claims about the Vec<u8> extractor (SpecVec)                            *)
(***************************************************************************)
\* C18: every Vec<u8> extraction succeeds; the first returns the whole body
\* the request had and leaves the request with an empty body; a second one
\* on the same request returns an empty body; method, URI, version, headers
\* and extensions of the request are what they were.
C18_BodyTaken ==
    vpc = "handler" =>
        /\ \A i \in DOMAIN vres : vres[i].ok
        /\ Len(vres) >= 1 =>
              /\ vres[1].value = vreq0.body
              /\ vreq.body = <<>>
        /\ Len(vres) >= 2 => vres[2].value = <<>>
        /\ vreq.method = vreq0.method
        /\ vreq.uri = vreq0.uri
        /\ vreq.version = vreq0.version
        /\ vreq.headers = vreq0.headers
        /\ vreq.extensions = vreq0.extensions

\* a request with a body of two bytes, headers and a Params in its
\* extensions has been extracted from twice
C18_Witness ==
    /\ vpc = "handler"
    /\ Len(vres) = 2
    /\ vreq0.body = <<104, 255>>
    /\ vres[1].value = <<104, 255>>
    /\ vres[2].value = <<>>
    /\ vreq.headers # <<>>
    /\ vreq.extensions.has_params

====
